---- MODULE Spec2Model ----
(***************************************************************************)
(* PolEn dashboard: the streaming-state pipeline of pages/index.tsx (the   *)
(* Home component: WebSocket run sessions, run / pause / reset, anchor     *)
(* date, agent comparison and policy recommendation requests) and the      *)
(* multi-source merge of components/CoreCharts.tsx.                        *)
(*                                                                         *)
(* The host runtime is single-threaded: every user event and every socket  *)
(* or fetch callback runs to completion, so each handler is one action.    *)
(***************************************************************************)
EXTENDS Integers, Sequences, FiniteSets, TLC

(* ------------------------------ bounds -------------------------------- *)

\* number of WebSockets handleRun may create in one behaviour
MaxSockets == 2
\* cap on the length of the accumulated step list
MaxLen == 2
MaxFetches == 2
MaxMonths == 25
TickMonths == 10
MaxBand == 2

(* ------------------------------ values -------------------------------- *)

\* the value of wsRef.current when it is null
NoSocket == 0

Sockets == 1..MaxSockets

\* `null` for the values modelled as tuples (selectedDate, agentResults)
Null == <<>>

\* the anchor date the date selector offers besides "Latest", as
\* <<year, month, day>>; the projection from it crosses a year end
AnchorDates == { <<2023, 12, 31>> }

\* the dates /api/historical/dates lists (historicalDates)
HistoricalDates == AnchorDates \cup { <<2024, 6, 30>> }

\* the step field of a server message; 0 stands for a message without a
\* (truthy) step field
StepFields == {0, 1, 2}

\* the JSON objects the server may push: {error}, {done:true}, {step:n,...};
\* the handler returns on `error` before it reads any other field, so one
\* error message stands for all of them
Messages ==
  { m \in [error : BOOLEAN, done : BOOLEAN, step : StepFields] :
      m.error => (~m.done /\ m.step = 0) }

\* result maps of /api/agents/simulate (result.agents), as the sequence
\* Object.values gives: one healthy agent; a healthy agent whose fan is
\* shorter than its path, with an agent that failed and carries no path;
\* a healthy agent with an agent that carries both an error and a path
\* (stress_path is a required field of AgentResult, error an optional one)
AgentMaps ==
  { << [agent |-> "custom", error |-> FALSE, stress_path |-> <<1, 2>>,
         stress_fan |-> <<1, 2>>] >>,
    << [agent |-> "custom", error |-> FALSE, stress_path |-> <<1, 2>>,
         stress_fan |-> <<1>>],
       [agent |-> "rl", error |-> TRUE, stress_path |-> <<>>,
         stress_fan |-> <<>>] >>,
    << [agent |-> "custom", error |-> FALSE, stress_path |-> <<1, 2>>,
         stress_fan |-> <<1, 2>>],
       [agent |-> "rl", error |-> TRUE, stress_path |-> <<7>>,
         stress_fan |-> <<>>] >> }

\* bodies of a successful /api/agents/simulate response the page receives
AgentReplies == { reply \in AgentMaps : Len(reply) = 1 }

(* ---------------------- CoreCharts: the merge -------------------------- *)

\* the historyMonths prop the page passes to CoreCharts
HistoryMonths == 120

\* a loaded /api/historical/timeseries response: month-end dates in
\* ascending order with the latent stress factor alongside
History ==
  [ dates  |-> << <<2023, 11, 30>>, <<2023, 12, 31>>, <<2024, 1, 31>>,
                  <<2024, 2, 29>> >>,
    stress |-> << 3, 4, 5, 6 >> ]

\* the timeseries prop: null until the history has been fetched
TimeseriesInputs == { Null, History }

\* the agentResults prop: absent (the page passes none), or a result map
AgentInputs == { Null } \cup { << map >> : map \in AgentMaps }

\* a < b on "YYYY-MM-DD" strings (four-digit years)
DateLess(a, b) ==
  \/ a[1] < b[1]
  \/ a[1] = b[1] /\ a[2] < b[2]
  \/ a[1] = b[1] /\ a[2] = b[2] /\ a[3] < b[3]

IsLeapYear(y) == (y % 4 = 0 /\ y % 100 # 0) \/ y % 400 = 0

\* new Date(year, month, 0).getDate(): the last day of month 1..12
LastDayOfMonth(y, m) ==
  IF m = 2 THEN (IF IsLeapYear(y) THEN 29 ELSE 28)
  ELSE IF m \in {4, 6, 9, 11} THEN 30 ELSE 31

\* addMonthsEnd with a plausible slip: the month length is taken in the
\* anchor's year
addMonthsEnd_AnchorYear(dateStr, n) ==
  LET total    == dateStr[1] * 12 + (dateStr[2] - 1) + n
      newYear  == total \div 12
      newMonth == (total % 12) + 1
  IN  << newYear, newMonth, LastDayOfMonth(dateStr[1], newMonth) >>

\* addMonthsEnd: the end-of-month date n months after dateStr's month
addMonthsEnd(dateStr, n) ==
  LET total    == dateStr[1] * 12 + (dateStr[2] - 1) + n
      newYear  == total \div 12
      newMonth == (total % 12) + 1
  IN  << newYear, newMonth, LastDayOfMonth(newYear, newMonth) >>

\* Math.round(a / b) for b > 0: floor(a / b + 1/2)
RoundDiv(a, b) == (2 * a + b) \div (2 * b)

\* the loop of computeTimeTicks from index i on: a date is a tick when it
\* lies at least intervalMonths months after the last tick
RECURSIVE TickLoop(_, _, _, _, _, _)
TickLoop(dates, i, intervalMonths, ticks, lastY, lastM) ==
  IF i > Len(dates) THEN ticks
  ELSE LET cy   == dates[i][1]
           cm   == dates[i][2]
           diff == (cy - lastY) * 12 + (cm - lastM)
       IN  IF diff >= intervalMonths
             THEN TickLoop(dates, i + 1, intervalMonths,
                           Append(ticks, dates[i]), cy, cm)
             ELSE TickLoop(dates, i + 1, intervalMonths, ticks, lastY, lastM)

\* computeTimeTicks with a plausible slip: the last date is not added
computeTimeTicks_NoLast(dates, targetCount) ==
  IF Len(dates) <= targetCount THEN dates
  ELSE LET first          == dates[1]
           last           == dates[Len(dates)]
           totalMonths    == (last[1] - first[1]) * 12 + (last[2] - first[2])
           rounded        == RoundDiv(totalMonths, targetCount - 1)
           intervalMonths == IF rounded > 1 THEN rounded ELSE 1
       IN  TickLoop(dates, 1, intervalMonths, << first >>, first[1], first[2])

\* computeTimeTicks on the dates of the rows (data.map((d) => d.date)),
\* for targetCount > 1
computeTimeTicks(dates, targetCount) ==
  IF Len(dates) <= targetCount THEN dates
  ELSE LET first          == dates[1]
           last           == dates[Len(dates)]
           totalMonths    == (last[1] - first[1]) * 12 + (last[2] - first[2])
           rounded        == RoundDiv(totalMonths, targetCount - 1)
           intervalMonths == IF rounded > 1 THEN rounded ELSE 1
           ticks          == TickLoop(dates, 1, intervalMonths, << first >>,
                                      first[1], first[2])
       IN  IF ticks[Len(ticks)] # last THEN Append(ticks, last) ELSE ticks

\* the band fields with a plausible slip: the median is left absolute in
\* deviation mode
BandFields_MedianAbsolute(fan, dev, s0) ==
  LET ref  == IF dev THEN s0 ELSE 0
      sp5  == fan.p5 - ref
      sp25 == fan.p25 - ref
      sp50 == fan.p50
      sp75 == fan.p75 - ref
      sp95 == fan.p95 - ref
  IN  [ sim_p50      |-> sp50,
        sim_base     |-> sp5,
        sim_outer_lo |-> sp25 - sp5,
        sim_iqr      |-> sp75 - sp25,
        sim_outer_hi |-> sp95 - sp75 ]

\* the band fields with a plausible slip: the inter-quartile magnitude is
\* measured from the median
BandFields_IqrFromMedian(fan, dev, s0) ==
  LET ref  == IF dev THEN s0 ELSE 0
      sp5  == fan.p5 - ref
      sp25 == fan.p25 - ref
      sp50 == fan.p50 - ref
      sp75 == fan.p75 - ref
      sp95 == fan.p95 - ref
  IN  [ sim_p50      |-> sp50,
        sim_base     |-> sp5,
        sim_outer_lo |-> sp25 - sp5,
        sim_iqr      |-> sp75 - sp50,
        sim_outer_hi |-> sp95 - sp75 ]

\* the band fields of the row pushed for a live step: the percentiles less
\* the reference (s0 in deviation mode, else 0), as p50, a base and three
\* stacked magnitudes
BandFields(fan, dev, s0) ==
  LET ref  == IF dev THEN s0 ELSE 0
      sp5  == fan.p5 - ref
      sp25 == fan.p25 - ref
      sp50 == fan.p50 - ref
      sp75 == fan.p75 - ref
      sp95 == fan.p95 - ref
  IN  [ sim_p50      |-> sp50,
        sim_base     |-> sp5,
        sim_outer_lo |-> sp25 - sp5,
        sim_iqr      |-> sp75 - sp25,
        sim_outer_hi |-> sp95 - sp75 ]

\* an object with no fields but date (and isSim); the empty tuple is an
\* absent field, the empty function an object without agent_<id> fields
Row(date, hist, sim, isSim) ==
  [date |-> date, hist |-> hist, sim |-> sim, isSim |-> isSim, agents |-> <<>>]

\* pt[`agent_${key}`] = val
SetAgentField(pt, key, val) ==
  [pt EXCEPT !.agents =
     [k \in DOMAIN pt.agents \cup {key} |-> IF k = key THEN val ELSE pt.agents[k]]]

\* mergeInto: the first row at this date gets the field; without one a new
\* row {date, isSim: true} is pushed
mergeInto(arr, date, key, val) ==
  LET hits == { i \in DOMAIN arr : arr[i].date = date } IN
  IF hits = {}
    THEN Append(arr, SetAgentField(Row(date, <<>>, <<>>, TRUE), key, val))
    ELSE LET i == CHOOSE j \in hits : \A k \in hits : j <= k
         IN  [arr EXCEPT ![i] = SetAgentField(arr[i], key, val)]

\* Array.prototype.sort(cmp) with cmp comparing dates, a stable sort: row
\* i comes before row j when its date is smaller, or equal with i < j
SortByDate(arr) ==
  LET Before(i, j) ==
        \/ DateLess(arr[i].date, arr[j].date)
        \/ arr[i].date = arr[j].date /\ i < j
      ranked == { << Cardinality({ j \in DOMAIN arr : Before(j, i) }) + 1, i >> :
                    i \in DOMAIN arr }
  IN  [ k \in DOMAIN arr |-> arr[(CHOOSE p \in ranked : p[1] = k)[2]] ]

\* the rows pushed for the history from index i on (the trailing
\* historyMonths window), and with an overlay and a selected date only the
\* dates not after it
HistoricalRows(ts, i, hasOverlay, selDate, withHist) ==
  IF ts = Null \/ i > Len(ts.dates) THEN <<>>
  ELSE LET window == [ k \in 1..(Len(ts.dates) - i + 1) |->
                        Row(ts.dates[i + k - 1],
                            IF withHist THEN << ts.stress[i + k - 1] >> ELSE <<>>,
                            <<>>, FALSE) ]
           Kept(row) == ~(hasOverlay /\ selDate # Null /\ DateLess(selDate, row.date))
       IN  SelectSeq(window, Kept)

\* the rows pushed for the live steps, one per element of simulationData
SimulationRows(simData, selDate) ==
  IF simData # <<>> /\ selDate # Null
    THEN [ i \in DOMAIN simData |->
             Row(addMonthsEnd(selDate, simData[i].step), <<>>,
                 << simData[i].step >>, TRUE) ]
    ELSE <<>>

\* the agent overlay of one table: every step of every agent with a
\* non-empty stress_path is merged in, its path value in the stress table;
\* onlyFan keeps the steps that have a stress_fan entry and merges that
\* entry's p5 (the es95 table)
RECURSIVE AgentSteps(_, _, _, _, _)
AgentSteps(arr, agent, step, selDate, onlyFan) ==
  IF step > Len(agent.stress_path) THEN arr
  ELSE AgentSteps(
         IF onlyFan /\ step > Len(agent.stress_fan) THEN arr
         ELSE mergeInto(arr, addMonthsEnd(selDate, step), agent.agent,
                        IF onlyFan THEN agent.stress_fan[step]
                        ELSE agent.stress_path[step]),
         agent, step + 1, selDate, onlyFan)

RECURSIVE AgentOverlay(_, _, _, _, _)
AgentOverlay(arr, agents, a, selDate, onlyFan) ==
  IF a > Len(agents) THEN arr
  ELSE AgentOverlay(
         IF agents[a].stress_path = <<>> THEN arr
         ELSE AgentSteps(arr, agents[a], 1, selDate, onlyFan),
         agents, a + 1, selDate, onlyFan)

\* one merged table of the useMemo: history, live steps, agents, then sort
MergedTable(ts, simData, selDate, historyMonths, agentRes, withHist, onlyFan) ==
  LET simActive    == simData # <<>>
      agentsActive == agentRes # Null /\ agentRes[1] # <<>>
      hasOverlay   == simActive \/ agentsActive
      start        == IF ts = Null THEN 1
                      ELSE IF Len(ts.dates) > historyMonths
                        THEN Len(ts.dates) - historyMonths + 1 ELSE 1
      pushed       == HistoricalRows(ts, start, hasOverlay, selDate, withHist)
                        \o SimulationRows(simData, selDate)
      overlaid     == IF agentsActive /\ selDate # Null
                        THEN AgentOverlay(pushed, agentRes[1], 1, selDate, onlyFan)
                        ELSE pushed
  IN  SortByDate(overlaid)

\* stressData, growthData and crisisData share one date structure; es95Data
\* has history rows without a value and agent rows only where a fan exists
stressData(ts, simData, selDate, historyMonths, agentRes) ==
  MergedTable(ts, simData, selDate, historyMonths, agentRes, TRUE, FALSE)

es95Data(ts, simData, selDate, historyMonths, agentRes) ==
  MergedTable(ts, simData, selDate, historyMonths, agentRes, FALSE, TRUE)

(* ------------------------- HistoricalTimeline -------------------------- *)

\* the length of the dates prop
MaxDates == 3

\* the dates prop: sorted month ends
TimelineDates == [ i \in 1..MaxDates |-> addMonthsEnd(<<2023, 12, 31>>, i - 1) ]

\* a selectedDate prop that is not one of the dates
OutsideDate == <<2023, 6, 30>>

\* dates.indexOf(date): the 0-based index of the date, -1 when absent
indexOf(dates, date) ==
  IF \E i \in DOMAIN dates : dates[i] = date
    THEN (CHOOSE i \in DOMAIN dates :
            dates[i] = date /\ \A j \in DOMAIN dates : dates[j] = date => i <= j) - 1
    ELSE -1

(* ------------------------------- state -------------------------------- *)

VARIABLES
  isRunning,        \* useState(false)
  simulationData,   \* useState<StepData[]>([]): the accumulated step list
  wsRef,            \* useRef<WebSocket | null>(null)
  readyState,       \* per created WebSocket, its connection state
  error,            \* useState<string | null>(null)
  selectedDate,     \* useState<string | null>(null)
  agentResults,     \* useState<Record<string, any> | null>(null)
  agentRunning,     \* useState(false)
  policyResult,     \* useState<PolicyComparison | null>(null)
  showPolicyModal,  \* useState(false)
  recommendLoading, \* useState(false)
  failed,           \* history: open sockets that have delivered {error}
  lastOp,           \* history: the handler that ran last
  lastSock,         \* history: the socket whose callback ran last
  deviationMode,    \* CoreCharts: useState(false)
  loading,          \* useState(false)
  refreshAt,        \* the await refreshState is suspended at, or "idle"
  macroState,       \* useState<MacroState | null>(null)
  timeseries,       \* useState<TimeseriesData | null>(null)
  timeseriesFetch,  \* a fetchTimeseries call is in flight
  snapshotState,    \* useState<MacroState | null>(null), as its date
  snapshotFetches,  \* per date, the fetchSnapshotState calls in flight
  snapshotDep,      \* the selectedDate useEffect([selectedDate]) last ran for
  playing,          \* HistoricalTimeline: useState(false)
  timelineDate,     \* HistoricalTimeline: the selectedDate prop
  timer,            \* the pending setTimeout, as the currentIndex it closed over
  timelineDeps,     \* playing and currentIndex the auto-advance effect last ran for
  timelineRequest,  \* history: the last onDateChange call, its caller and index
  calcIn,           \* argument of the helper under evaluation
  calcOut           \* its result

vars == << isRunning, simulationData, wsRef, readyState, error, selectedDate,
           agentResults, agentRunning, policyResult, showPolicyModal,
           recommendLoading, failed, lastOp, lastSock,
           deviationMode, loading, refreshAt, macroState, timeseries,
           timeseriesFetch, snapshotState, snapshotFetches, snapshotDep,
           playing, timelineDate, timer, timelineDeps, timelineRequest,
           calcIn, calcOut >>

sessionVars == << isRunning, simulationData, wsRef, readyState, error, failed >>
requestVars == << agentResults, agentRunning, policyResult, showPolicyModal,
                  recommendLoading >>
refreshVars == << loading, refreshAt, macroState, timeseries, timeseriesFetch >>
snapshotVars == << snapshotState, snapshotFetches, snapshotDep >>
timelineVars == << playing, timelineDate, timer, timelineDeps, timelineRequest >>
viewVars == << deviationMode, refreshVars, snapshotVars, timelineVars >>
calcVars == << calcIn, calcOut >>
pageVars == << sessionVars, selectedDate, requestVars, viewVars, lastOp,
               lastSock >>

\* sockets handleRun has created so far
Created == { s \in Sockets : readyState[s] # "NONE" }

\* the most recently created socket (NoSocket before the first run)
Latest == Cardinality(Created)

\* sockets that can still deliver: WebSocket.CONNECTING or WebSocket.OPEN
LiveSockets == { s \in Sockets : readyState[s] \in {"CONNECTING", "OPEN"} }

\* the page after its first render
InitPage ==
  /\ isRunning = FALSE
  /\ simulationData = <<>>
  /\ wsRef = NoSocket
  /\ readyState = [s \in Sockets |-> "NONE"]
  /\ error = "null"
  /\ selectedDate = Null
  /\ agentResults = Null
  /\ agentRunning = FALSE
  /\ policyResult = "null"
  /\ showPolicyModal = FALSE
  /\ recommendLoading = FALSE
  /\ failed = {}
  /\ lastOp = "none"
  /\ lastSock = NoSocket
  /\ deviationMode = FALSE
  /\ loading = FALSE
  /\ refreshAt = "idle"
  /\ macroState = "null"
  /\ timeseries = Null
  /\ timeseriesFetch = FALSE
  /\ snapshotState = Null
  /\ snapshotFetches = [d \in HistoricalDates |-> 0]
  /\ snapshotDep = Null
  /\ playing = FALSE
  /\ timelineDate = Null
  /\ timer = Null
  /\ timelineDeps = << FALSE, Len(TimelineDates) - 1 >>
  /\ timelineRequest = Null

Init ==
  /\ InitPage
  /\ calcIn = Null
  /\ calcOut = Null

(* ------------------------ simulation handlers ------------------------- *)

\* WebSocket.close(): a socket still connecting is failed (the browser then
\* fires error and close), an open one starts the closing handshake; a
\* closing or closed socket is left alone.  "ABORTING" is readyState
\* CLOSING reached from CONNECTING.
CloseSocket(rs, s) ==
  IF s = NoSocket THEN rs
  ELSE [rs EXCEPT ![s] = IF @ = "CONNECTING" THEN "ABORTING"
                         ELSE IF @ = "OPEN" THEN "CLOSING" ELSE @]

\* handleRun: clear the list, set running, open a socket, keep it in wsRef
handleRun ==
  /\ Latest < MaxSockets
  /\ simulationData' = <<>>
  /\ isRunning' = TRUE
  /\ error' = "null"
  /\ wsRef' = Latest + 1
  /\ readyState' = [readyState EXCEPT ![Latest + 1] = "CONNECTING"]
  /\ lastOp' = "run"
  /\ lastSock' = NoSocket
  /\ UNCHANGED << viewVars, calcVars >>
  /\ UNCHANGED << selectedDate, failed, requestVars >>

\* ws.onopen: the connection is established and the run parameters are sent
onopen(s) ==
  /\ readyState[s] = "CONNECTING"
  /\ readyState' = [readyState EXCEPT ![s] = "OPEN"]
  /\ lastOp' = "onopen"
  /\ lastSock' = s
  /\ UNCHANGED << viewVars, calcVars >>
  /\ UNCHANGED << isRunning, simulationData, wsRef, error, selectedDate,
                  failed, requestVars >>

\* ws.onmessage with a plausible slip: the terminal message is ignored
onmessage_IgnoresDone(s, data) ==
  /\ readyState[s] = "OPEN"
  /\ IF data.error
       THEN /\ error' = "server"
            /\ isRunning' = FALSE
            /\ failed' = failed \cup {s}
            /\ UNCHANGED simulationData
       ELSE IF data.done /\ data.step = 0
         THEN UNCHANGED << isRunning, error, failed, simulationData >>
         ELSE IF data.step # 0
           THEN /\ Len(simulationData) < MaxLen
                /\ simulationData' =
                     Append(simulationData, [step |-> data.step])
                /\ UNCHANGED << error, failed, isRunning >>
           ELSE UNCHANGED << error, failed, isRunning, simulationData >>
  /\ lastOp' = "onmessage"
  /\ lastSock' = s
  /\ UNCHANGED << viewVars, calcVars >>
  /\ UNCHANGED << wsRef, readyState, selectedDate, requestVars >>

\* ws.onmessage: message events are dispatched only while the socket is OPEN
onmessage(s, data) ==
  /\ readyState[s] = "OPEN"
  /\ IF data.error
       THEN /\ error' = "server"
            /\ isRunning' = FALSE
            /\ failed' = failed \cup {s}
            /\ UNCHANGED simulationData
       ELSE IF data.done /\ data.step = 0
         THEN /\ isRunning' = FALSE
              /\ UNCHANGED << error, failed, simulationData >>
         ELSE IF data.step # 0
           THEN /\ Len(simulationData) < MaxLen
                /\ simulationData' =
                     Append(simulationData, [step |-> data.step])
                /\ UNCHANGED << error, failed, isRunning >>
           ELSE UNCHANGED << error, failed, isRunning, simulationData >>
  /\ lastOp' = "onmessage"
  /\ lastSock' = s
  /\ UNCHANGED << viewVars, calcVars >>
  /\ UNCHANGED << wsRef, readyState, selectedDate, requestVars >>

\* ws.onerror with a plausible slip: the fault also drops the steps
onerror_DropsSteps(s) ==
  /\ readyState[s] \in {"CONNECTING", "OPEN", "CLOSING", "ABORTING"}
  /\ readyState' = [readyState EXCEPT ![s] = "CLOSED"]
  /\ isRunning' = FALSE
  /\ error' = "WebSocket connection failed"
  /\ wsRef' = NoSocket
  /\ failed' = failed \ {s}
  /\ simulationData' = <<>>
  /\ lastOp' = "onerror"
  /\ lastSock' = s
  /\ UNCHANGED << viewVars, calcVars >>
  /\ UNCHANGED << selectedDate, requestVars >>

\* ws.onerror followed by ws.onclose: a failed connection fires the error
\* event and the close event in the same task
onerror(s) ==
  /\ readyState[s] \in {"CONNECTING", "OPEN", "CLOSING", "ABORTING"}
  /\ readyState' = [readyState EXCEPT ![s] = "CLOSED"]
  /\ isRunning' = FALSE
  /\ error' = "WebSocket connection failed"
  /\ wsRef' = NoSocket
  /\ failed' = failed \ {s}
  /\ lastOp' = "onerror"
  /\ lastSock' = s
  /\ UNCHANGED << viewVars, calcVars >>
  /\ UNCHANGED << simulationData, selectedDate, requestVars >>

\* ws.onclose after a clean closing handshake (started by the server on an
\* open socket, or by close() on it)
onclose(s) ==
  /\ readyState[s] \in {"OPEN", "CLOSING"}
  /\ readyState' = [readyState EXCEPT ![s] = "CLOSED"]
  /\ isRunning' = FALSE
  /\ wsRef' = NoSocket
  /\ lastOp' = "onclose"
  /\ lastSock' = s
  /\ UNCHANGED << viewVars, calcVars >>
  /\ failed' = failed \ {s}
  /\ UNCHANGED << simulationData, error, selectedDate, requestVars >>

\* handlePause with a plausible slip: the pause also drops the steps
handlePause_DropsSteps ==
  /\ readyState' = CloseSocket(readyState, wsRef)
  /\ wsRef' = NoSocket
  /\ isRunning' = FALSE
  /\ simulationData' = <<>>
  /\ lastOp' = "pause"
  /\ lastSock' = NoSocket
  /\ UNCHANGED << viewVars, calcVars >>
  /\ UNCHANGED << error, selectedDate, failed, requestVars >>

\* handlePause: close the socket wsRef holds, forget it, leave Running
handlePause ==
  /\ readyState' = CloseSocket(readyState, wsRef)
  /\ wsRef' = NoSocket
  /\ isRunning' = FALSE
  /\ lastOp' = "pause"
  /\ lastSock' = NoSocket
  /\ UNCHANGED << viewVars, calcVars >>
  /\ UNCHANGED << simulationData, error, selectedDate, failed, requestVars >>

\* handleReset with a plausible slip: setAgentResults(null) is missing
handleReset_KeepsAgentResults ==
  /\ readyState' = CloseSocket(readyState, wsRef)
  /\ wsRef' = NoSocket
  /\ isRunning' = FALSE
  /\ simulationData' = <<>>
  /\ policyResult' = "null"
  /\ showPolicyModal' = FALSE
  /\ lastOp' = "reset"
  /\ lastSock' = NoSocket
  /\ UNCHANGED << viewVars, calcVars >>
  /\ UNCHANGED << error, selectedDate, failed, agentResults, agentRunning,
                  recommendLoading >>

\* handleReset: handlePause(), then clear steps, policy result and modal,
\* and agent results
handleReset ==
  /\ readyState' = CloseSocket(readyState, wsRef)
  /\ wsRef' = NoSocket
  /\ isRunning' = FALSE
  /\ simulationData' = <<>>
  /\ policyResult' = "null"
  /\ showPolicyModal' = FALSE
  /\ agentResults' = Null
  /\ lastOp' = "reset"
  /\ lastSock' = NoSocket
  /\ UNCHANGED << viewVars, calcVars >>
  /\ UNCHANGED << error, selectedDate, failed, agentRunning, recommendLoading >>

\* handleDateChange: date is "" (the "Latest" option, stored as null) or a date
handleDateChange(date) ==
  /\ selectedDate' = date
  /\ simulationData' = <<>>
  /\ lastOp' = "date"
  /\ lastSock' = NoSocket
  /\ UNCHANGED << viewVars, calcVars >>
  /\ UNCHANGED << isRunning, wsRef, readyState, error, failed, requestVars >>

(* --------------------- request / response handlers -------------------- *)

\* handleRecommend up to its first await; its button is disabled while
\* recommendLoading
handleRecommend ==
  /\ ~recommendLoading
  /\ recommendLoading' = TRUE
  /\ error' = "null"
  /\ lastOp' = "request"
  /\ lastSock' = NoSocket
  /\ UNCHANGED << viewVars, calcVars >>
  /\ UNCHANGED << isRunning, simulationData, wsRef, readyState, selectedDate,
                  failed, agentResults, agentRunning, policyResult,
                  showPolicyModal >>

\* handleRecommend after the response: result and modal, or the error
RecommendResponse(ok) ==
  /\ recommendLoading
  /\ IF ok
       THEN /\ policyResult' = "result"
            /\ showPolicyModal' = TRUE
            /\ UNCHANGED error
       ELSE /\ error' = "request failed"
            /\ UNCHANGED << policyResult, showPolicyModal >>
  /\ recommendLoading' = FALSE
  /\ lastOp' = "request"
  /\ lastSock' = NoSocket
  /\ UNCHANGED << viewVars, calcVars >>
  /\ UNCHANGED << isRunning, simulationData, wsRef, readyState, selectedDate,
                  failed, agentResults, agentRunning >>

\* the policy modal's close button (the modal is rendered while
\* showPolicyModal && policyResult)
ClosePolicyModal ==
  /\ showPolicyModal /\ policyResult # "null"
  /\ showPolicyModal' = FALSE
  /\ lastOp' = "request"
  /\ lastSock' = NoSocket
  /\ UNCHANGED << viewVars, calcVars >>
  /\ UNCHANGED << sessionVars, selectedDate, agentResults, agentRunning,
                  policyResult, recommendLoading >>

\* handleAgentRun up to its first await; its button is disabled while
\* agentRunning
handleAgentRun ==
  /\ ~agentRunning
  /\ agentRunning' = TRUE
  /\ agentResults' = Null
  /\ error' = "null"
  /\ lastOp' = "request"
  /\ lastSock' = NoSocket
  /\ UNCHANGED << viewVars, calcVars >>
  /\ UNCHANGED << isRunning, simulationData, wsRef, readyState, selectedDate,
                  failed, policyResult, showPolicyModal, recommendLoading >>

\* handleAgentRun after the response: the agents map, or the error
AgentResponse(ok, reply) ==
  /\ agentRunning
  /\ IF ok
       THEN /\ agentResults' = << reply >>
            /\ UNCHANGED error
       ELSE /\ error' = "request failed"
            /\ UNCHANGED agentResults
  /\ agentRunning' = FALSE
  /\ lastOp' = "request"
  /\ lastSock' = NoSocket
  /\ UNCHANGED << viewVars, calcVars >>
  /\ UNCHANGED << isRunning, simulationData, wsRef, readyState, selectedDate,
                  failed, policyResult, showPolicyModal, recommendLoading >>

(* ------------------------------ the view ------------------------------ *)

\* the sidebar renders the Run button only while not running, and the
\* Pause button only while running
ClickRun == ~isRunning /\ handleRun
ClickPause == isRunning /\ handlePause

Next ==
  \/ ClickRun
  \/ ClickPause
  \/ handleReset
  \/ \E date \in AnchorDates \cup {Null} : handleDateChange(date)
  \/ \E s \in Sockets : onopen(s)
  \/ \E s \in Sockets, data \in Messages : onmessage(s, data)
  \/ \E s \in Sockets : onerror(s)
  \/ \E s \in Sockets : onclose(s)
  \/ handleRecommend
  \/ \E ok \in BOOLEAN : RecommendResponse(ok)
  \/ ClosePolicyModal
  \/ handleAgentRun
  \/ \E ok \in BOOLEAN, reply \in AgentReplies : AgentResponse(ok, reply)

Spec == Init /\ [][Next]_vars

\* the simulation handlers and socket callbacks alone
NextSession ==
  \/ ClickRun
  \/ ClickPause
  \/ handleReset
  \/ \E date \in AnchorDates \cup {Null} : handleDateChange(date)
  \/ \E s \in Sockets : onopen(s)
  \/ \E s \in Sockets, data \in Messages : onmessage(s, data)
  \/ \E s \in Sockets : onerror(s)
  \/ \E s \in Sockets : onclose(s)

SpecSession == Init /\ [][NextSession]_vars

\* the terminal message {done: true}
DoneMessage == [error |-> FALSE, done |-> TRUE, step |-> 0]

\* the same with fair delivery of channel events: every socket that was
\* created eventually fails or closes
SpecFair ==
  /\ Init
  /\ [][NextSession]_vars
  /\ \A s \in Sockets : WF_vars(onerror(s) \/ onclose(s))

\* every handler as the page exports it to the sidebar (onRun, onPause, ...),
\* invoked without regard to which button the sidebar currently renders
NextHandlers ==
  \/ handleRun
  \/ handlePause
  \/ handleReset
  \/ \E date \in AnchorDates \cup {Null} : handleDateChange(date)
  \/ \E s \in Sockets : onopen(s)
  \/ \E s \in Sockets, data \in Messages : onmessage(s, data)
  \/ \E s \in Sockets : onerror(s)
  \/ \E s \in Sockets : onclose(s)

SpecHandlers == Init /\ [][NextHandlers]_vars

(* --------------------------- anchor selection ------------------------- *)

\* the date selector's onChange while "Latest" is selected: the user picks
\* an anchor date
SelectAnchor(date) ==
  /\ selectedDate = Null
  /\ date # Null
  /\ handleDateChange(date)

\* sessions around one choice of anchor: the anchor moves once, from
\* "Latest" to a date; every socket created before that was started with
\* "Latest", every later one with the date
NextAnchor ==
  \/ ClickRun
  \/ ClickPause
  \/ handleReset
  \/ \E date \in AnchorDates : SelectAnchor(date)
  \/ \E s \in Sockets : onopen(s)
  \/ \E s \in Sockets, data \in Messages : onmessage(s, data)
  \/ \E s \in Sockets : onerror(s)
  \/ \E s \in Sockets : onclose(s)

SpecAnchor == Init /\ [][NextAnchor]_vars

(* ------------------------- CoreCharts controls ------------------------ *)

\* the toggle with a plausible slip: switching the mode restarts the overlay
toggleDeviationMode_ClearsSteps ==
  /\ simulationData # <<>>
  /\ deviationMode' = ~deviationMode
  /\ simulationData' = <<>>
  /\ lastOp' = "toggle"
  /\ lastSock' = NoSocket
  /\ UNCHANGED << isRunning, wsRef, readyState, error, failed, selectedDate,
                  requestVars, timelineVars, refreshVars, snapshotVars, calcVars >>

\* the Absolute / Deviation button, rendered while simActive:
\* setDeviationMode(!deviationMode)
toggleDeviationMode ==
  /\ simulationData # <<>>
  /\ deviationMode' = ~deviationMode
  /\ lastOp' = "toggle"
  /\ lastSock' = NoSocket
  /\ UNCHANGED << sessionVars, selectedDate, requestVars, timelineVars, refreshVars,
                  snapshotVars, calcVars >>

\* the simulation, the agent comparison and the chart's mode button
NextDisplay ==
  \/ ClickRun
  \/ ClickPause
  \/ handleReset
  \/ \E date \in AnchorDates \cup {Null} : handleDateChange(date)
  \/ \E s \in Sockets : onopen(s)
  \/ \E s \in Sockets, data \in Messages : onmessage(s, data)
  \/ \E s \in Sockets : onerror(s)
  \/ \E s \in Sockets : onclose(s)
  \/ handleAgentRun
  \/ \E ok \in BOOLEAN, reply \in AgentReplies : AgentResponse(ok, reply)
  \/ toggleDeviationMode

SpecDisplay == Init /\ [][NextDisplay]_vars

(* ------------------------------- refresh ------------------------------ *)

\* refreshState up to its first await; the Refresh button is disabled while
\* loading (the mount effect makes the first call)
refreshState ==
  /\ ~loading
  /\ loading' = TRUE
  /\ error' = "null"
  /\ refreshAt' = "state"
  /\ lastOp' = "refresh"
  /\ lastSock' = NoSocket
  /\ UNCHANGED << isRunning, simulationData, wsRef, readyState, failed,
                  selectedDate, requestVars, timelineVars, deviationMode, macroState,
                  timeseries, timeseriesFetch, snapshotVars, calcVars >>

\* refreshState after /api/state/refresh and /api/state/current: the new
\* macroState (useEffect([macroState]) then fetches the timeseries), or the
\* error and the end of loading
RefreshStateResponse(ok) ==
  /\ refreshAt = "state"
  /\ IF ok
       THEN /\ macroState' = "state"
            /\ timeseriesFetch' = TRUE
            /\ refreshAt' = "mode"
            /\ UNCHANGED << error, loading >>
       ELSE /\ error' = "request failed"
            /\ loading' = FALSE
            /\ refreshAt' = "idle"
            /\ UNCHANGED << macroState, timeseriesFetch >>
  /\ lastOp' = "request"
  /\ lastSock' = NoSocket
  /\ UNCHANGED << isRunning, simulationData, wsRef, readyState, failed,
                  selectedDate, requestVars, timelineVars, deviationMode, timeseries,
                  snapshotVars, calcVars >>

\* refreshState after /api/policy/mode: finally setLoading(false)
RefreshModeResponse ==
  /\ refreshAt = "mode"
  /\ loading' = FALSE
  /\ refreshAt' = "idle"
  /\ lastOp' = "request"
  /\ lastSock' = NoSocket
  /\ UNCHANGED << sessionVars, selectedDate, requestVars, timelineVars, deviationMode,
                  macroState, timeseries, timeseriesFetch, snapshotVars,
                  calcVars >>

\* fetchTimeseries after its response: the history, or nothing on !res.ok
TimeseriesResponse(ok) ==
  /\ timeseriesFetch
  /\ timeseriesFetch' = FALSE
  /\ timeseries' = IF ok THEN History ELSE timeseries
  /\ lastOp' = "request"
  /\ lastSock' = NoSocket
  /\ UNCHANGED << sessionVars, selectedDate, requestVars, timelineVars, deviationMode,
                  loading, refreshAt, macroState, snapshotVars, calcVars >>

\* the simulation, the agent comparison, the recommendation and Refresh
NextRefresh ==
  \/ ClickRun
  \/ ClickPause
  \/ handleReset
  \/ \E s \in Sockets : onopen(s)
  \/ \E s \in Sockets, data \in Messages : onmessage(s, data)
  \/ \E s \in Sockets : onerror(s)
  \/ \E s \in Sockets : onclose(s)
  \/ handleAgentRun
  \/ \E ok \in BOOLEAN, reply \in AgentReplies : AgentResponse(ok, reply)
  \/ refreshState
  \/ \E ok \in BOOLEAN : RefreshStateResponse(ok)
  \/ RefreshModeResponse
  \/ \E ok \in BOOLEAN : TimeseriesResponse(ok)

SpecRefresh == Init /\ [][NextRefresh]_vars

(* ------------------------------ snapshots ----------------------------- *)

\* useEffect([selectedDate]), run after the render in which selectedDate
\* changed: fetch the snapshot of the date, or clear it for "Latest"
SelectedDateEffect ==
  /\ snapshotDep # selectedDate
  /\ snapshotDep' = selectedDate
  /\ IF selectedDate # Null
       THEN /\ snapshotFetches' =
                 [snapshotFetches EXCEPT ![selectedDate] = @ + 1]
            /\ UNCHANGED snapshotState
       ELSE /\ snapshotState' = Null
            /\ UNCHANGED snapshotFetches
  /\ lastOp' = "effect"
  /\ lastSock' = NoSocket
  /\ UNCHANGED << sessionVars, selectedDate, requestVars, timelineVars, deviationMode,
                  refreshVars, calcVars >>

\* fetchSnapshotState(date) after its response: setSnapshotState of the
\* snapshot for `date`, or nothing on !res.ok
fetchSnapshotState(date, ok) ==
  /\ snapshotFetches[date] > 0
  /\ snapshotFetches' = [snapshotFetches EXCEPT ![date] = @ - 1]
  /\ snapshotState' = IF ok THEN date ELSE snapshotState
  /\ lastOp' = "request"
  /\ lastSock' = NoSocket
  /\ UNCHANGED << sessionVars, selectedDate, requestVars, timelineVars, deviationMode,
                  refreshVars, snapshotDep, calcVars >>

\* the date selector's onChange, with at most MaxFetches requests for one
\* date in flight
SelectDate(date) ==
  /\ snapshotDep = selectedDate
  /\ date # Null => snapshotFetches[date] < MaxFetches
  /\ handleDateChange(date)

\* a snapshot request is answered (React has run any pending effect before
\* it handles the event)
SnapshotArrives(date) ==
  /\ snapshotDep = selectedDate
  /\ fetchSnapshotState(date, TRUE)

\* the date selector with a server that answers every snapshot request
NextSnapshot ==
  \/ SelectedDateEffect
  \/ \E date \in HistoricalDates \cup {Null} : SelectDate(date)
  \/ \E date \in HistoricalDates : SnapshotArrives(date)

SpecSnapshot == Init /\ [][NextSnapshot]_vars

(* --------------------------- helper evaluation ------------------------ *)

\* anchor dates handed to addMonthsEnd: the first and the last day of every
\* month of a common year, a leap year and the year before 2100
DateInputs ==
  { <<y, m, d>> : y \in {2023, 2024, 2099}, m \in 1..12, d \in {1, 28, 31} }
    \ { <<y, m, 31>> : y \in {2023, 2024, 2099}, m \in {2, 4, 6, 9, 11} }

\* a call addMonthsEnd(selectedDate, step)
InitDates ==
  /\ InitPage
  /\ calcIn \in [date : DateInputs, n : 0..MaxMonths]
  /\ calcOut = Null

EvalAddMonthsEnd ==
  /\ calcOut = Null
  /\ calcOut' = addMonthsEnd(calcIn.date, calcIn.n)
  /\ UNCHANGED << pageVars, calcIn >>

SpecDates == InitDates /\ [][EvalAddMonthsEnd]_vars

\* the default targetCount of computeTimeTicks
DefaultTargetCount == 8

\* dates of chart rows: TickMonths consecutive month ends and one date in
\* the middle of a month
TickDates ==
  { addMonthsEnd(<<2023, 9, 30>>, k) : k \in 1..TickMonths }
    \cup { <<2023, 11, 15>> }

\* the dates of S in ascending order
RECURSIVE SortedDates(_)
SortedDates(S) ==
  IF S = {} THEN <<>>
  ELSE LET first == CHOOSE d \in S : \A e \in S \ {d} : DateLess(d, e)
       IN  << first >> \o SortedDates(S \ {first})

\* a call computeTimeTicks(data, targetCount) on date-sorted rows
InitTicks ==
  /\ InitPage
  /\ calcIn \in [dates : { SortedDates(S) : S \in SUBSET TickDates \ {{}} },
                 targetCount : {2, 3, DefaultTargetCount}]
  /\ calcOut = Null

EvalComputeTimeTicks ==
  /\ calcOut = Null
  /\ calcOut' = computeTimeTicks(calcIn.dates, calcIn.targetCount)
  /\ UNCHANGED << pageVars, calcIn >>

SpecTicks == InitTicks /\ [][EvalComputeTimeTicks]_vars

\* percentile values of a fan and of initial_mu (the latent factors are
\* signed)
BandValues == -1..MaxBand

\* the fans a step message may carry
Fans == [p5 : BandValues, p25 : BandValues, p50 : BandValues,
         p75 : BandValues, p95 : BandValues]

\* the band fields computed for one step: its stress_fan, the mode and
\* initialMu[0]
InitBand ==
  /\ InitPage
  /\ calcIn \in [fan : Fans, dev : BOOLEAN, s0 : BandValues]
  /\ calcOut = Null

EvalBandFields ==
  /\ calcOut = Null
  /\ calcOut' = BandFields(calcIn.fan, calcIn.dev, calcIn.s0)
  /\ UNCHANGED << pageVars, calcIn >>

SpecBand == InitBand /\ [][EvalBandFields]_vars

\* agentKeys: the agents the overlay loop pushed, in result order
RECURSIVE ActiveAgentKeys(_, _)
ActiveAgentKeys(agents, a) ==
  IF a > Len(agents) THEN <<>>
  ELSE (IF agents[a].stress_path = <<>> THEN <<>> ELSE << agents[a].agent >>)
         \o ActiveAgentKeys(agents, a + 1)

agentKeys(selDate, agentRes) ==
  IF agentRes # Null /\ agentRes[1] # <<>> /\ selDate # Null
    THEN ActiveAgentKeys(agentRes[1], 1)
    ELSE <<>>

(* ----------------- CoreCharts: the earlier variant --------------------- *)

\* addMonths: Date.setMonth keeps the day of the month and rolls a day the
\* target month does not have over into the following month; the day of
\* the result is then capped at 28
addMonths(dateStr, n) ==
  LET total    == dateStr[1] * 12 + (dateStr[2] - 1) + n
      y        == total \div 12
      m        == (total % 12) + 1
      last     == LastDayOfMonth(y, m)
      rolled   == IF dateStr[3] <= last THEN << y, m, dateStr[3] >>
                  ELSE << (total + 1) \div 12, ((total + 1) % 12) + 1,
                          dateStr[3] - last >>
  IN  << rolled[1], rolled[2],
         IF rolled[3] < 28 THEN rolled[3] ELSE 28 >>

\* the rows the earlier variant pushes for the history: the whole
\* trailing window from index i on, whatever the overlay
WindowRows(ts, i) ==
  IF ts = Null \/ i > Len(ts.dates) THEN <<>>
  ELSE [ k \in 1..(Len(ts.dates) - i + 1) |->
           Row(ts.dates[i + k - 1], << ts.stress[i + k - 1] >>, <<>>, FALSE) ]

\* the stress table of the earlier variant: history, live steps dated by
\* addMonths, then the sort
stressDataEarlier(ts, simData, selDate, historyMonths) ==
  LET start == IF ts = Null THEN 1
               ELSE IF Len(ts.dates) > historyMonths
                 THEN Len(ts.dates) - historyMonths + 1 ELSE 1
      sim   == IF simData # <<>> /\ selDate # Null
                 THEN [ i \in DOMAIN simData |->
                          Row(addMonths(selDate, simData[i].step), <<>>,
                              << simData[i].step >>, TRUE) ]
                 ELSE <<>>
  IN  SortByDate(WindowRows(ts, start) \o sim)

(* -------------------------- merge evaluation -------------------------- *)

\* a history longer than the display window: HistoryMonths + 2 month ends,
\* the last four of them the dates of History
LongHistory ==
  [ dates  |-> [ i \in 1..(HistoryMonths + 2) |->
                   addMonthsEnd(<<2013, 12, 31>>, i) ],
    stress |-> [ i \in 1..(HistoryMonths + 2) |-> i ] ]

\* step lists with the indices 1..k
StepLists == { [ i \in 1..k |-> [step |-> i] ] : k \in 0..MaxLen }

\* the selectedDate prop: "Latest", the first date of the long history, a
\* date of the short one
MergeAnchors == { Null, <<2014, 1, 31>>, <<2023, 12, 31>> }

\* one render of CoreCharts: its props
InitMerge ==
  /\ InitPage
  /\ calcIn \in [timeseries : TimeseriesInputs \cup {LongHistory},
                 simulationData : StepLists,
                 selectedDate : MergeAnchors,
                 agentResults : AgentInputs]
  /\ calcOut = Null

\* the useMemo of the component, and of its earlier variant (which takes
\* no agentResults)
EvalMerge ==
  /\ calcOut = Null
  /\ calcOut' =
       [ stressData |-> stressData(calcIn.timeseries, calcIn.simulationData,
                          calcIn.selectedDate, HistoryMonths, calcIn.agentResults),
         es95Data   |-> es95Data(calcIn.timeseries, calcIn.simulationData,
                          calcIn.selectedDate, HistoryMonths, calcIn.agentResults),
         agentKeys  |-> agentKeys(calcIn.selectedDate, calcIn.agentResults),
         earlier    |-> stressDataEarlier(calcIn.timeseries,
                          calcIn.simulationData, calcIn.selectedDate,
                          HistoryMonths) ]
  /\ UNCHANGED << pageVars, calcIn >>

SpecMerge == InitMerge /\ [][EvalMerge]_vars

(* ------------------------- deviation reference ------------------------ *)

\* the initialMu memo reads simulationData[0].initial_mu: the step it takes
\* the reference from is the first element of the list, whatever its index
\* (no step of an empty list)
initialMuSource(simData) ==
  IF simData # <<>> THEN << simData[1] >> ELSE Null

(* -------------------------- the two date rules ------------------------ *)

\* the date of one step under each variant of the component: addMonthsEnd
\* (CoreCharts.tsx) and addMonths (the earlier variant)
EvalDateRules ==
  /\ calcOut = Null
  /\ calcOut' = [ end     |-> addMonthsEnd(calcIn.date, calcIn.n),
                  clamped |-> addMonths(calcIn.date, calcIn.n) ]
  /\ UNCHANGED << pageVars, calcIn >>

SpecDateRules == InitDates /\ [][EvalDateRules]_vars

(* ----------------------- HistoricalTimeline: play --------------------- *)

\* currentIndex: the index of the selected date, the last index when no
\* date is selected
currentIndex ==
  IF timelineDate # Null THEN indexOf(TimelineDates, timelineDate)
  ELSE Len(TimelineDates) - 1

\* playing or currentIndex changed since the auto-advance effect last ran:
\* React runs the effect (its cleanup first) before the next event
EffectPending == timelineDeps # << playing, currentIndex >>

\* the timeline's handlers leave the page alone
TimelineFrame ==
  /\ lastSock' = NoSocket
  /\ UNCHANGED << sessionVars, selectedDate, requestVars, deviationMode,
                  refreshVars, snapshotVars, calcVars >>

\* the auto-advance effect with a plausible slip: the last index is not
\* excluded
AutoAdvanceEffect_PastTheEnd ==
  /\ EffectPending
  /\ timelineDeps' = << playing, currentIndex >>
  /\ IF ~playing \/ currentIndex < 0 \/ currentIndex > Len(TimelineDates) - 1
       THEN /\ timer' = Null
            /\ playing' = IF playing /\ currentIndex > Len(TimelineDates) - 1
                            THEN FALSE ELSE playing
       ELSE /\ timer' = << currentIndex >>
            /\ UNCHANGED playing
  /\ lastOp' = "timelineEffect"
  /\ TimelineFrame
  /\ UNCHANGED << timelineDate, timelineRequest >>

\* the auto-advance effect: the cleanup clears the pending timer; at the
\* last index playing is switched off, otherwise while playing with the
\* selection among the dates a timer is set
AutoAdvanceEffect ==
  /\ EffectPending
  /\ timelineDeps' = << playing, currentIndex >>
  /\ IF ~playing \/ currentIndex < 0 \/ currentIndex >= Len(TimelineDates) - 1
       THEN /\ timer' = Null
            /\ playing' = IF playing /\ currentIndex >= Len(TimelineDates) - 1
                            THEN FALSE ELSE playing
       ELSE /\ timer' = << currentIndex >>
            /\ UNCHANGED playing
  /\ lastOp' = "timelineEffect"
  /\ TimelineFrame
  /\ UNCHANGED << timelineDate, timelineRequest >>

\* the timer fires: onDateChange(dates[currentIndex + 1]) with the
\* currentIndex the callback closed over
TimerTick ==
  /\ ~EffectPending
  /\ timer # Null
  /\ timelineRequest' = [by |-> "tick", index |-> timer[1] + 1]
  /\ timer' = Null
  /\ lastOp' = "tick"
  /\ TimelineFrame
  /\ UNCHANGED << playing, timelineDate, timelineDeps >>

\* the play / pause button: setPlaying((p) => !p)
TogglePlaying ==
  /\ ~EffectPending
  /\ playing' = ~playing
  /\ lastOp' = "play"
  /\ TimelineFrame
  /\ UNCHANGED << timelineDate, timer, timelineDeps, timelineRequest >>

\* stepBack; its button is disabled while currentIndex <= 0
stepBack ==
  /\ ~EffectPending
  /\ currentIndex > 0
  /\ timelineRequest' = [by |-> "stepBack", index |-> currentIndex - 1]
  /\ lastOp' = "stepBack"
  /\ TimelineFrame
  /\ UNCHANGED << playing, timelineDate, timer, timelineDeps >>

\* stepForward; its button is disabled while currentIndex >= dates.length - 1
stepForward ==
  /\ ~EffectPending
  /\ currentIndex < Len(TimelineDates) - 1
  /\ timelineRequest' = [by |-> "stepForward", index |-> currentIndex + 1]
  /\ lastOp' = "stepForward"
  /\ TimelineFrame
  /\ UNCHANGED << playing, timelineDate, timer, timelineDeps >>

\* the range slider: onDateChange(dates[parseInt(e.target.value)]), its
\* value between min 0 and max dates.length - 1
slider(value) ==
  /\ ~EffectPending
  /\ value \in 0..(Len(TimelineDates) - 1)
  /\ timelineRequest' = [by |-> "slider", index |-> value]
  /\ lastOp' = "slider"
  /\ TimelineFrame
  /\ UNCHANGED << playing, timelineDate, timer, timelineDeps >>

\* the parent re-renders the timeline with another selectedDate prop: a
\* date it was asked for or any other, none, or a date that is not in dates
ParentSelects(date) ==
  /\ ~EffectPending
  /\ date # timelineDate
  /\ timelineDate' = date
  /\ lastOp' = "parent"
  /\ TimelineFrame
  /\ UNCHANGED << playing, timer, timelineDeps, timelineRequest >>

NextTimeline ==
  \/ AutoAdvanceEffect
  \/ TimerTick
  \/ TogglePlaying
  \/ stepBack
  \/ stepForward
  \/ \E value \in 0..(MaxDates - 1) : slider(value)
  \/ \E date \in { TimelineDates[i] : i \in DOMAIN TimelineDates }
                   \cup { Null, OutsideDate } : ParentSelects(date)

SpecTimeline == Init /\ [][NextTimeline]_vars

(* =============================== claims =============================== *)

\* C1 -- session isolation: a message delivered on a socket other than the
\* most recently started one leaves the accumulated step list unchanged (so
\* the list only ever holds steps of the most recent session).
C1_SessionIsolation ==
  [][ (lastOp' = "onmessage" /\ lastSock' # Latest)
        => UNCHANGED simulationData ]_vars

\* C2 -- at most one live session: in every reachable state at most one
\* WebSocket created by handleRun is connecting or open.
C2_AtMostOneLiveSession == Cardinality(LiveSockets) <= 1

\* C3 -- reset mid-stream: a handleReset taken while a socket is streaming
\* leaves the step list empty, isRunning false and no socket live (the
\* session is cancelled), and a message delivered right after a reset
\* changes neither the list nor isRunning.
C3_ResetMidStream ==
  [][ /\ (lastOp' = "reset" /\ \E s \in Sockets : readyState[s] = "OPEN")
         => (simulationData' = <<>> /\ ~isRunning' /\ LiveSockets' = {})
      /\ (lastOp = "reset" /\ lastOp' = "onmessage")
         => UNCHANGED << simulationData, isRunning >> ]_vars

\* C4 -- a callback (close, error, message) of a socket other than the one
\* wsRef holds leaves isRunning and wsRef of the current session unchanged.
C4_StaleCallbackIsInert ==
  [][ ( /\ wsRef # NoSocket
        /\ lastOp' \in {"onclose", "onerror", "onmessage"}
        /\ lastSock' # wsRef )
        => UNCHANGED << isRunning, wsRef >> ]_vars

\* C5 -- step-index validation: the accumulated list's step indices are
\* exactly 1, 2, ..., k in every reachable state.
C5_StepIndicesAreConsecutive ==
  \A i \in DOMAIN simulationData : simulationData[i].step = i

\* C6 -- a failed session is final: once a socket has delivered {error}
\* (after a channel error it is closed and delivers nothing), a later
\* message of that socket is not processed: it appends no step.
C6_FailedSessionIsFinal ==
  [][ (lastOp' = "onmessage" /\ lastSock' \in failed)
        => UNCHANGED simulationData ]_vars

\* the dates of a table are strictly increasing (so no date repeats)
StrictlyIncreasingDates(table) ==
  \A i \in 1..(Len(table) - 1) : DateLess(table[i].date, table[i + 1].date)

\* C7 -- merge invariant: whatever the history and the agent results are,
\* the tables merged from them, the accumulated steps and the selected
\* date have strictly increasing dates, no date in two rows.
C7_MergedDatesStrictlyIncrease ==
  \A ts \in TimeseriesInputs, agentRes \in AgentInputs :
    /\ StrictlyIncreasingDates(
         stressData(ts, simulationData, selectedDate, HistoryMonths, agentRes))
    /\ StrictlyIncreasingDates(
         es95Data(ts, simulationData, selectedDate, HistoryMonths, agentRes))

\* C8 -- run while already running is a no-op: a handleRun invoked while
\* isRunning is true changes neither the step list, the socket handle,
\* isRunning nor any socket.
C8_RunWhileRunningIsNoOp ==
  [][ (isRunning /\ lastOp' = "run")
        => UNCHANGED << simulationData, wsRef, isRunning, readyState >> ]_vars

C10_PauseRetainsData ==
  [][ /\ lastOp' = "pause" =>
           /\ wsRef # NoSocket => readyState'[wsRef] \notin {"CONNECTING", "OPEN"}
           /\ ~isRunning'
           /\ UNCHANGED << simulationData, agentResults, policyResult,
                           selectedDate >>
      /\ lastOp' = "run" =>
           /\ simulationData' = <<>>
           /\ wsRef' \notin Created
           /\ readyState'[wsRef'] = "CONNECTING" ]_vars

\* C10 witness: a pause has just happened with steps, agent results and a
\* policy result on screen and an anchor date selected
C10_Witness ==
  /\ lastOp = "pause"
  /\ simulationData # <<>>
  /\ agentResults # Null
  /\ policyResult # "null"
  /\ selectedDate # Null
  /\ \E s \in Sockets : readyState[s] = "CLOSING"

\* C11 -- anchor consistency: handleDateChange clears the step list, and a
\* session that was streaming when the anchor changed adds no step under
\* the new anchor.  Under SpecAnchor the anchor changes once, so a message
\* delivered right after the change comes from a session that was started
\* with the previous anchor.
C11_AnchorConsistency ==
  [][ /\ lastOp' = "date" => simulationData' = <<>>
      /\ (lastOp = "date" /\ lastOp' = "onmessage")
           => UNCHANGED simulationData ]_vars

\* C12 -- toggling deviation mode is a pure display flag: it flips
\* deviationMode and leaves the step list, the socket handle, isRunning,
\* selectedDate and agentResults unchanged, and opens or closes no socket.
C12_TogglePureDisplayFlag ==
  [][ lastOp' = "toggle" =>
        /\ deviationMode' = ~deviationMode
        /\ UNCHANGED << simulationData, wsRef, isRunning, selectedDate,
                        agentResults, readyState >> ]_vars

\* C12 witness: the mode has just been switched to Deviation while a session
\* streams with steps, agent results and an anchor on screen
C12_Witness ==
  /\ lastOp = "toggle"
  /\ deviationMode
  /\ isRunning /\ wsRef # NoSocket
  /\ simulationData # <<>>
  /\ agentResults # Null
  /\ selectedDate # Null

\* C13 -- refresh always resets: a refreshState call leaves the socket the
\* handle held closed, isRunning false, the step list empty and the agent
\* and recommendation results null, before any new data is loaded.
C13_RefreshResets ==
  [][ lastOp' = "refresh" =>
        /\ wsRef # NoSocket => readyState'[wsRef] \notin {"CONNECTING", "OPEN"}
        /\ ~isRunning'
        /\ simulationData' = <<>>
        /\ agentResults' = Null
        /\ policyResult' = "null" ]_vars

\* C14 -- stale snapshot responses do not clobber newer state: once the
\* effect has run and every snapshot response has completed, in whatever
\* order, snapshotState is the snapshot of the selected date (null for
\* "Latest").
C14_SnapshotFollowsSelection ==
  ( /\ snapshotDep = selectedDate
    /\ \A d \in HistoricalDates : snapshotFetches[d] = 0 )
    => snapshotState = selectedDate

\* C15 -- pending results do not survive a reset: a response that arrives
\* right after handleReset, to an agent comparison or a recommendation
\* requested before it, sets neither agentResults nor policyResult and
\* opens no policy modal.
C15_PendingResultsDropped ==
  [][ lastOp = "reset" =>
        /\ (agentRunning /\ ~agentRunning') => agentResults' = Null
        /\ (recommendLoading /\ ~recommendLoading')
             => (policyResult' = "null" /\ ~showPolicyModal') ]_vars

C17_ExactlyOnceInOrder ==
  [][ /\ \A s \in Sockets, data \in Messages :
           (onmessage(s, data) /\ ~data.error /\ data.step # 0)
             => simulationData' = Append(simulationData, [step |-> data.step])
      /\ (isRunning /\ lastOp' = "onmessage" /\ simulationData' # simulationData)
           => lastSock' = Latest
      /\ lastOp' \notin {"run", "reset", "date", "onmessage"}
           => UNCHANGED simulationData ]_vars

\* the number of days of month m (1..12) of year y in the Gregorian calendar
DaysIn(y, m) ==
  LET leap == IF y % 100 = 0 THEN y % 400 = 0 ELSE y % 4 = 0
  IN  << 31, IF leap THEN 29 ELSE 28, 31, 30, 31, 30, 31, 31, 30, 31, 30, 31 >>[m]

\* C18 -- addMonthsEnd(d, n) for n >= 0: the month is month(d) + n modulo 12
\* (December where that is 0), the year is advanced by the whole years
\* carried, and the day is the last day of that month, leap years included;
\* 2024-06-30 with n = 1, 2, 3 gives 2024-07-31, 2024-08-31, 2024-09-30.
C18_AddMonthsEnd ==
  calcOut # Null =>
    LET d == calcIn.date
        n == calcIn.n
    IN  /\ calcOut[2] \in 1..12
        /\ calcOut[2] % 12 = (d[2] + n) % 12
        /\ calcOut[1] = d[1] + ((d[2] - 1 + n) \div 12)
        /\ calcOut[3] = DaysIn(calcOut[1], calcOut[2])
        /\ (d[1] = 2024 /\ d[2] = 6 /\ n = 1) => calcOut = <<2024, 7, 31>>
        /\ (d[1] = 2024 /\ d[2] = 6 /\ n = 2) => calcOut = <<2024, 8, 31>>
        /\ (d[1] = 2024 /\ d[2] = 6 /\ n = 3) => calcOut = <<2024, 9, 30>>

\* C18 witness: two months after 2023-12-31 is the leap day 2024-02-29
C18_Witness ==
  /\ calcIn # Null
  /\ calcIn.date = <<2023, 12, 31>>
  /\ calcIn.n = 2
  /\ calcOut = <<2024, 2, 29>>

\* sub is an order-preserving subsequence of seq: its elements are found in
\* seq at increasing positions
RECURSIVE IsSubsequence(_, _)
IsSubsequence(sub, seq) ==
  IF sub = <<>> THEN TRUE
  ELSE IF seq = <<>> THEN FALSE
  ELSE IF Head(sub) = Head(seq) THEN IsSubsequence(Tail(sub), Tail(seq))
  ELSE IsSubsequence(sub, Tail(seq))

\* C19 -- computeTimeTicks on a non-empty date-sorted input: the output
\* holds the first and the last input date, is an order-preserving
\* subsequence of the input with no date twice, is no longer than the
\* input, and is the input itself when that has at most targetCount dates.
C19_TimeTicks ==
  calcOut # Null =>
    LET in  == calcIn.dates
        out == calcOut
    IN  /\ out[1] = in[1]
        /\ out[Len(out)] = in[Len(in)]
        /\ IsSubsequence(out, in)
        /\ \A i, j \in DOMAIN out : i < j => DateLess(out[i], out[j])
        /\ Len(out) <= Len(in)
        /\ Len(in) <= calcIn.targetCount => out = in

\* C19 witness: more dates than the default targetCount, thinned out to
\* fewer ticks that still end with the last date
C19_Witness ==
  /\ calcIn # Null /\ calcOut # Null
  /\ calcIn.targetCount = DefaultTargetCount
  /\ Len(calcIn.dates) > DefaultTargetCount
  /\ Len(calcOut) < Len(calcIn.dates)
  /\ calcOut[Len(calcOut)] = calcIn.dates[Len(calcIn.dates)]

\* the percentiles of a fan are in order
OrderedFan(fan) ==
  fan.p5 <= fan.p25 /\ fan.p25 <= fan.p50 /\ fan.p50 <= fan.p75
    /\ fan.p75 <= fan.p95

\* C20 as stated -- for an ordered fan in absolute mode the four magnitudes
\* sim_base, sim_outer_lo, sim_iqr, sim_outer_hi are non-negative, sim_base
\* is p5, and the four sum to p95 - p5.
C20_FourMagnitudes ==
  (calcOut # Null /\ ~calcIn.dev /\ OrderedFan(calcIn.fan)) =>
    /\ calcOut.sim_base >= 0
    /\ calcOut.sim_outer_lo >= 0
    /\ calcOut.sim_iqr >= 0
    /\ calcOut.sim_outer_hi >= 0
    /\ calcOut.sim_base = calcIn.fan.p5
    /\ calcOut.sim_base + calcOut.sim_outer_lo + calcOut.sim_iqr
         + calcOut.sim_outer_hi = calcIn.fan.p95 - calcIn.fan.p5

\* C20 as amended -- for an ordered fan in absolute mode sim_base is p5, the
\* three magnitudes sim_outer_lo, sim_iqr, sim_outer_hi are non-negative and
\* sum to p95 - p5, so that the four stacked from sim_base reach p95.
C20_BaseAndThreeMagnitudes ==
  (calcOut # Null /\ ~calcIn.dev /\ OrderedFan(calcIn.fan)) =>
    /\ calcOut.sim_outer_lo >= 0
    /\ calcOut.sim_iqr >= 0
    /\ calcOut.sim_outer_hi >= 0
    /\ calcOut.sim_base = calcIn.fan.p5
    /\ calcOut.sim_outer_lo + calcOut.sim_iqr + calcOut.sim_outer_hi
         = calcIn.fan.p95 - calcIn.fan.p5
    /\ calcOut.sim_base + calcOut.sim_outer_lo + calcOut.sim_iqr
         + calcOut.sim_outer_hi = calcIn.fan.p95

\* C20 witness: an ordered fan with distinct percentiles and a negative p5,
\* decomposed in absolute mode
C20_Witness ==
  /\ calcIn # Null /\ calcOut # Null
  /\ ~calcIn.dev
  /\ calcIn.fan = [p5 |-> -1, p25 |-> 0, p50 |-> 1, p75 |-> 1, p95 |-> 2]
  /\ calcOut.sim_base = -1
  /\ calcOut.sim_iqr = 1

\* the agentResults prop holds at least one result
AgentsGiven(agentRes) == agentRes # Null /\ agentRes[1] # <<>>

\* the dates of the display window: the trailing HistoryMonths dates
WindowDates(ts) ==
  IF ts = Null THEN {}
  ELSE { ts.dates[i] : i \in { j \in DOMAIN ts.dates :
                                 j > Len(ts.dates) - HistoryMonths } }

\* the historical rows of a table are the rows that are not isSim
HistoricalDatesOf(table) ==
  { table[i].date : i \in { j \in DOMAIN table : ~table[j].isSim } }

\* with an overlay and a selected anchor no historical row of the table is
\* dated after the anchor; without an overlay every date of the display
\* window has its historical row
TrimmedToAnchor(table, overlay, anchor, ts) ==
  /\ (overlay /\ anchor # Null) =>
       \A d \in HistoricalDatesOf(table) : ~DateLess(anchor, d)
  /\ ~overlay => WindowDates(ts) \subseteq HistoricalDatesOf(table)

\* C21 -- history trimming: in every merged table, whenever an overlay is
\* active (steps or agent results non-empty; the earlier variant of the
\* component knows steps only) and an anchor date is selected, no
\* historical row is dated after the anchor, and when no overlay is active
\* every date of the display window has its historical row.
C21_HistoryTrimming ==
  calcOut # Null =>
    LET simActive == calcIn.simulationData # <<>>
        overlay   == simActive \/ AgentsGiven(calcIn.agentResults)
    IN  /\ \A table \in { calcOut.stressData, calcOut.es95Data } :
             TrimmedToAnchor(table, overlay, calcIn.selectedDate,
                             calcIn.timeseries)
        /\ TrimmedToAnchor(calcOut.earlier, simActive, calcIn.selectedDate,
                           calcIn.timeseries)

\* the agent has an agent_<id> field in some row of the table
Plotted(table, agent) ==
  \E i \in DOMAIN table : agent \in DOMAIN table[i].agents

\* C22 -- an agent result that carries an error field is excluded from the
\* merge: no row of a merged table has an agent_<id> field for it and it is
\* not in agentKeys, while an agent without an error (and with a path, an
\* anchor being selected) is in agentKeys and has its field in the stress
\* table.
C22_ErroredAgentExcluded ==
  (calcOut # Null /\ AgentsGiven(calcIn.agentResults)) =>
    \A a \in DOMAIN calcIn.agentResults[1] :
      LET agent == calcIn.agentResults[1][a]
          keyed == \E k \in DOMAIN calcOut.agentKeys :
                     calcOut.agentKeys[k] = agent.agent
      IN  /\ agent.error =>
               /\ ~keyed
               /\ ~Plotted(calcOut.stressData, agent.agent)
               /\ ~Plotted(calcOut.es95Data, agent.agent)
          /\ (~agent.error /\ agent.stress_path # <<>>
                /\ calcIn.selectedDate # Null) =>
               keyed /\ Plotted(calcOut.stressData, agent.agent)

\* C23 -- a transport fault discards no data: when onerror (with the close
\* that follows it) fires on the socket wsRef holds, isRunning becomes
\* false, error becomes the one transport message, and the accumulated
\* step list is what it was before the fault.
C23_TransportFaultKeepsData ==
  [][ (lastOp' = "onerror" /\ wsRef # NoSocket /\ lastSock' = wsRef) =>
        /\ ~isRunning'
        /\ error' = "WebSocket connection failed"
        /\ simulationData' = simulationData ]_vars

\* C23 witness: the only socket created has failed with steps accumulated,
\* which are still there
C23_Witness ==
  /\ lastOp = "onerror" /\ lastSock = 1 /\ Latest = 1
  /\ simulationData # <<>>
  /\ error = "WebSocket connection failed" /\ ~isRunning

\* C24 -- stacking reconstructs the band: for every fan and either
\* deviation setting, with r the reference subtracted (s0 in deviation
\* mode, 0 in absolute mode), sim_base = p5 - r, sim_base + sim_outer_lo =
\* p25 - r, sim_base + sim_outer_lo + sim_iqr = p75 - r, all four fields
\* sum to p95 - r, and sim_p50 = p50 - r.
C24_StackingReconstructsBand ==
  calcOut # Null =>
    LET r == IF calcIn.dev THEN calcIn.s0 ELSE 0 IN
    /\ calcOut.sim_base = calcIn.fan.p5 - r
    /\ calcOut.sim_base + calcOut.sim_outer_lo = calcIn.fan.p25 - r
    /\ calcOut.sim_base + calcOut.sim_outer_lo + calcOut.sim_iqr
         = calcIn.fan.p75 - r
    /\ calcOut.sim_base + calcOut.sim_outer_lo + calcOut.sim_iqr
         + calcOut.sim_outer_hi = calcIn.fan.p95 - r
    /\ calcOut.sim_p50 = calcIn.fan.p50 - r

\* C24 witness: a fan with spread decomposed in deviation mode with a
\* non-zero reference
C24_Witness ==
  /\ calcIn # Null /\ calcOut # Null
  /\ calcIn.dev /\ calcIn.s0 = 1
  /\ calcIn.fan = [p5 |-> -1, p25 |-> 0, p50 |-> 1, p75 |-> 2, p95 |-> 2]
  /\ calcOut.sim_base = -2 /\ calcOut.sim_p50 = 0

\* C25 -- defensive floor on bad bands: for any fan, ordered or not, the
\* emitted magnitudes sim_outer_lo, sim_iqr and sim_outer_hi are never
\* negative.
C25_MagnitudesNeverNegative ==
  calcOut # Null =>
    /\ calcOut.sim_outer_lo >= 0
    /\ calcOut.sim_iqr >= 0
    /\ calcOut.sim_outer_hi >= 0

\* C26 -- stable deviation baseline: the step the reference is taken from
\* does not change as further steps are appended, and when a message
\* refills the list right after an anchor change cleared it, the step the
\* reference is then taken from is a first step (index 1), not a later step
\* of the run that was streaming.
C26_StableBaseline ==
  [][ /\ (lastOp' = "onmessage" /\ simulationData # <<>>)
         => initialMuSource(simulationData') = initialMuSource(simulationData)
      /\ (lastOp = "date" /\ lastOp' = "onmessage" /\ simulationData' # <<>>)
         => initialMuSource(simulationData')[1].step = 1 ]_vars

\* every step i of every plotted agent has exactly one row dated
\* addMonthsEnd(anchor, i) in the table; that row holds the agent's i-th
\* path value in its agent_<id> field and is the live row of step i where
\* the step list has one
AgentRowsAddressable(table, simData, anchor, agents) ==
  \A a \in DOMAIN agents : \A i \in DOMAIN agents[a].stress_path :
    LET date == addMonthsEnd(anchor, i)
        hits == { r \in DOMAIN table : table[r].date = date }
    IN  /\ Cardinality(hits) = 1
        /\ \A r \in hits :
             /\ agents[a].agent \in DOMAIN table[r].agents
             /\ table[r].agents[agents[a].agent] = agents[a].stress_path[i]
             /\ table[r].sim = IF \E k \in DOMAIN simData : simData[k].step = i
                                 THEN << i >> ELSE <<>>

\* C27 -- agent rows are addressable by date: with an anchor selected and
\* agent results given, whatever the history is, the stress table (growth
\* and crisis have the same rows) merged from them and the accumulated
\* steps has, for every plotted agent and every index i of its stress path,
\* exactly one row dated addMonthsEnd(anchor, i), holding the agent's i-th
\* value and keeping the live fields of that date.
C27_AgentRowsAddressable ==
  selectedDate # Null =>
    \A ts \in TimeseriesInputs, agentRes \in AgentInputs \ {Null} :
      AgentRowsAddressable(
        stressData(ts, simulationData, selectedDate, HistoryMonths, agentRes),
        simulationData, selectedDate, agentRes[1])

\* C28 -- one canonical date rule: for every anchor d and n >= 0, addMonths
\* returns the same year and month as addMonthsEnd(d, n).
C28_OneDateRule ==
  calcOut # Null =>
    /\ calcOut.clamped[1] = calcOut.end[1]
    /\ calcOut.clamped[2] = calcOut.end[2]

\* C29 -- history is not lost by windowing plus trimming: whenever the
\* loaded history has a date not after the selected anchor and an overlay
\* is active (steps or agent results non-empty), the stress and es95 tables
\* each contain at least one historical row.
C29_HistoryNotLost ==
  ( /\ calcOut # Null
    /\ calcIn.timeseries # Null /\ calcIn.selectedDate # Null
    /\ \E i \in DOMAIN calcIn.timeseries.dates :
         ~DateLess(calcIn.selectedDate, calcIn.timeseries.dates[i])
    /\ (calcIn.simulationData # <<>> \/ AgentsGiven(calcIn.agentResults)) )
  => /\ HistoricalDatesOf(calcOut.stressData) # {}
     /\ HistoricalDatesOf(calcOut.es95Data) # {}

\* C30 -- HistoricalTimeline auto-play terminates: a timer tick happens
\* only while playing with the selected date among the dates and requests
\* exactly the date at currentIndex + 1, never beyond the last index; when
\* the auto-advance effect runs with the selection at the last date,
\* playing becomes false and no timer is left to request a date; stepBack
\* and stepForward request an index within 0..len-1.
C30_AutoPlayTerminates ==
  [][ /\ lastOp' = "tick" =>
           /\ playing /\ currentIndex >= 0
           /\ timelineRequest'.index = currentIndex + 1
           /\ currentIndex + 1 <= Len(TimelineDates) - 1
      /\ (lastOp' = "timelineEffect" /\ currentIndex = Len(TimelineDates) - 1) =>
           (~playing' /\ timer' = Null)
      /\ lastOp' \in {"stepBack", "stepForward"} =>
           timelineRequest'.index \in 0..(Len(TimelineDates) - 1) ]_vars

\* C30 witness: auto-play has just asked for the last date, the parent has
\* selected it and the effect has switched playing off, leaving no timer
C30_Witness ==
  /\ lastOp = "timelineEffect"
  /\ timelineRequest = [by |-> "tick", index |-> Len(TimelineDates) - 1]
  /\ timelineDate = TimelineDates[Len(TimelineDates)]
  /\ ~playing /\ timer = Null

====
